---- MODULE Spec2Model ----
(***************************************************************************)
(* Session storage (backend/go/database/sql/session.go), its schema        *)
(* (up.sql) and the background goroutine of main that sweeps expired       *)
(* sessions.                                                               *)
(*                                                                         *)
(* Every method of DB issues exactly one SQL statement, which the store    *)
(* executes atomically, so a method is one step.  ExtendSession is the     *)
(* exception: it reads time.Now() in the calling goroutine before the      *)
(* UPDATE reaches the store, so it is two steps (ExtendCall, ExtendExec)   *)
(* and anything may happen between them.                                   *)
(*                                                                         *)
(* Time is an integer number of clock ticks at the resolution of the       *)
(* store's timestamp columns; time.Now() and current_timestamp read the    *)
(* same clock, now.                                                        *)
(***************************************************************************)
EXTENDS Integers, FiniteSets, Sequences, TLC

\* Bounds of the model.
MaxTime == 2
MaxSessions == 2
MaxDuration == 1
NumCallers == 1
MaxConcSessions == 1

Times == 0..MaxTime
Durations == (0 - MaxDuration)..MaxDuration
Ids == 1..MaxSessions
Creds == {"creds"}
Callers == 1..NumCallers

VARIABLES
    now,        \* the wall clock
    sessions,   \* table sessions: id -> row, for the ids that have a row
    nextId,     \* the next value of the SERIAL sequence behind sessions.id
    pending,    \* per request goroutine: the ExtendSession between its two steps
    reaperPc,   \* the background goroutine: "Idle" (in time.Sleep) or "Sweeping"
    last,       \* the step just taken: the call and what it returned
    saved,      \* history: id -> the credentials and endOfLife SaveSession was given,
                \* for the ids that have a row
    savedExpires, \* history: id -> the Expires SaveSession was given, for the ids
                \* that have a row no ExtendSession has updated
    removed     \* history: ids whose row a DELETE has removed

vars == <<now, sessions, nextId, pending, reaperPc, last, saved, savedExpires, removed>>

\* database.Session{}: the zero value LoadSession returns with an error.
ZeroSession == [ID |-> 0, EncryptedCreds |-> "", Expires |-> 0, EndOfLife |-> 0]

\* What a method returned, beside its error.
NoSession == ZeroSession

\* The errors the callers see.  BackendError is the error database/sql returned,
\* passed on as it is: the store could not be reached or the statement failed.
NoError == "nil"
ErrNotFound == "ErrNotFound"
BackendError == "BackendError"

NoCall == [active |-> FALSE, id |-> 0, expiration |-> 0]

\* A step of the program: the call, whether the store executed its statement,
\* and what the call returned (err, and the session or the count beside it).
Step(op, id, ok, err, session, count) ==
    [op |-> op, id |-> id, ok |-> ok, err |-> err, session |-> session, count |-> count,
     log |-> "none"]

\* The row of a session, column by column (up.sql).
Row(creds, expiration, endoflife) ==
    [encryptedcreds |-> creds, expiration |-> expiration, endoflife |-> endoflife]

\* Scan with the two timestamp columns read into each other's field.
ScanSwapped(id, row) ==
    [ID |-> id, EncryptedCreds |-> row.encryptedcreds,
     Expires |-> row.endoflife, EndOfLife |-> row.expiration]

\* SELECT * ... Scan(&session.ID, &session.EncryptedCreds, &session.Expires, &session.EndOfLife)
Scan(id, row) ==
    [ID |-> id, EncryptedCreds |-> row.encryptedcreds,
     Expires |-> row.expiration, EndOfLife |-> row.endoflife]

Present == DOMAIN sessions

Init ==
    /\ now = 0
    /\ sessions = <<>>
    /\ nextId = 1
    /\ pending = [c \in Callers |-> NoCall]
    /\ reaperPc = "Idle"
    /\ last = Step("Init", 0, TRUE, NoError, NoSession, 0)
    /\ saved = <<>>
    /\ savedExpires = <<>>
    /\ removed = {}

\* The clock advances.
Tick ==
    /\ now < MaxTime
    /\ now' = now + 1
    /\ last' = Step("Tick", 0, TRUE, NoError, NoSession, 0)
    /\ UNCHANGED <<sessions, nextId, pending, reaperPc, saved, savedExpires, removed>>

\* INSERT INTO sessions(encryptedcreds, expiration, endoflife) VALUES ($1, $2, $3)
InsertRow(in) == Row(in.EncryptedCreds, in.Expires, in.EndOfLife)

\* AssignedId taking the id after the largest one stored.
AssignedIdAfterMax ==
    IF Present = {} THEN 1
    ELSE (CHOOSE i \in Present : \A j \in Present : j <= i) + 1

\* id SERIAL PRIMARY KEY: the id the INSERT gives the new row, the next value
\* of the sequence.
AssignedId == nextId

\* SaveSession(in): ok says whether the store executed the INSERT.  in.ID is
\* whatever the caller left there; RETURNING id ... Scan(&in.ID) overwrites it.
SaveSession(in, ok) ==
    /\ nextId <= MaxSessions
    /\ IF ok
       THEN /\ sessions' = (AssignedId :> InsertRow(in)) @@ sessions
            /\ nextId' = nextId + 1
            /\ saved' = (AssignedId :> [EncryptedCreds |-> in.EncryptedCreds,
                                        EndOfLife |-> in.EndOfLife]) @@ saved
            /\ savedExpires' = (AssignedId :> in.Expires) @@ savedExpires
            /\ last' = Step("Save", AssignedId, TRUE, NoError,
                            [in EXCEPT !.ID = AssignedId], 0)
       ELSE /\ last' = Step("Save", 0, FALSE, BackendError, NoSession, 0)
            /\ UNCHANGED <<sessions, nextId, saved, savedExpires>>
    /\ UNCHANGED <<now, pending, reaperPc, removed>>

\* LoadReturn answering ErrNotFound for a row whose clocks have passed.
LoadReturnUnlessExpired(id, ok) ==
    IF ok /\ id \in Present /\ ~(sessions[id].expiration < now \/ sessions[id].endoflife < now)
    THEN <<Scan(id, sessions[id]), NoError>>
    ELSE <<ZeroSession, ErrNotFound>>

\* LoadSession(id): what it returns, <<session, err>>.  Every error of
\* QueryRow(...).Scan(...) is answered with ErrNotFound, sql.ErrNoRows (no row
\* has the id) and a failure of the store (~ok) alike.
LoadReturn(id, ok) ==
    IF ok /\ id \in Present
    THEN <<Scan(id, sessions[id]), NoError>>
    ELSE <<ZeroSession, ErrNotFound>>

\* LoadSession(id)
LoadSession(id, ok) ==
    /\ last' = Step("Load", id, ok, LoadReturn(id, ok)[2], LoadReturn(id, ok)[1], 0)
    /\ UNCHANGED <<now, sessions, nextId, pending, reaperPc, saved, savedExpires, removed>>

\* DeleteById matching every id up to the one given.
DeleteUpToId(id) == [i \in {j \in Present : j > id} |-> sessions[i]]

\* DeleteById emptying the table when no row has the id.
DeleteByIdOrAll(id) ==
    IF id \in Present THEN [i \in Present \ {id} |-> sessions[i]] ELSE <<>>

\* The table after DELETE FROM sessions WHERE id = $1.
DeleteById(id) == [i \in Present \ {id} |-> sessions[i]]

\* A history variable without the ids in gone.
Forget(h, gone) == [i \in DOMAIN h \ gone |-> h[i]]

\* LogoutSession(id)
LogoutSession(id, ok) ==
    /\ IF ok
       THEN /\ sessions' = DeleteById(id)
            /\ removed' = removed \cup (Present \cap {id})
            /\ saved' = Forget(saved, {id})
            /\ savedExpires' = Forget(savedExpires, {id})
            /\ last' = Step("Logout", id, TRUE, NoError, NoSession, 0)
       ELSE /\ last' = Step("Logout", 0, FALSE, BackendError, NoSession, 0)
            /\ UNCHANGED <<sessions, removed, saved, savedExpires>>
    /\ UNCHANGED <<now, nextId, pending, reaperPc>>

\* ExtendTimestamp without the Add: the clock as read.
ExtendTimestampNoAdd(lifespan) == now

\* time.Now().Add(lifespan)
ExtendTimestamp(lifespan) == now + lifespan

\* ExtendSession, first step: the caller evaluates time.Now().Add(lifespan).
ExtendCall(c, id, lifespan) ==
    /\ ~pending[c].active
    /\ pending' = [pending EXCEPT ![c] = [active |-> TRUE, id |-> id,
                                          expiration |-> ExtendTimestamp(lifespan)]]
    /\ last' = Step("ExtendCall", 0, TRUE, NoError, NoSession, 0)
    /\ UNCHANGED <<now, sessions, nextId, reaperPc, saved, savedExpires, removed>>

\* UpdateExpiration writing the other timestamp column.
UpdateEndOfLife(expiration, id) ==
    [i \in Present |-> IF i = id THEN [sessions[i] EXCEPT !.endoflife = expiration]
                                 ELSE sessions[i]]

\* UpdateExpiration that never moves expiration backward.
UpdateExpirationForward(expiration, id) ==
    [i \in Present |->
        IF i = id /\ expiration > sessions[i].expiration
        THEN [sessions[i] EXCEPT !.expiration = expiration]
        ELSE sessions[i]]

\* UpdateExpiration as an upsert: a row is created when none has the id.
UpsertExpiration(expiration, id) ==
    [i \in Present \cup {id} |->
        IF i = id
        THEN IF i \in Present THEN [sessions[i] EXCEPT !.expiration = expiration]
                              ELSE Row("", expiration, expiration)
        ELSE sessions[i]]

\* The table after UPDATE sessions SET expiration = $1 WHERE id = $2.
UpdateExpiration(expiration, id) ==
    [i \in Present |-> IF i = id THEN [sessions[i] EXCEPT !.expiration = expiration]
                                 ELSE sessions[i]]

\* ExtendSession, second step: the store executes the UPDATE, or fails.
ExtendExec(c, ok) ==
    /\ pending[c].active
    /\ pending' = [pending EXCEPT ![c] = NoCall]
    /\ IF ok
       THEN /\ sessions' = UpdateExpiration(pending[c].expiration, pending[c].id)
            /\ savedExpires' = Forget(savedExpires, {pending[c].id})
            /\ last' = Step("Extend", pending[c].id, TRUE, NoError, NoSession, 0)
       ELSE /\ last' = Step("Extend", 0, FALSE, BackendError, NoSession, 0)
            /\ UNCHANGED <<sessions, savedExpires>>
    /\ UNCHANGED <<now, nextId, reaperPc, saved, removed>>

\* Expired with the two clocks collapsed into one condition.
ExpiredBoth(row) == row.expiration < now /\ row.endoflife < now

\* Expired with the comparison the wrong way round.
ExpiredInverted(row) == row.expiration > now \/ row.endoflife > now

\* Expired with a clock that has reached the timestamp counted as past it.
ExpiredInclusive(row) == row.expiration <= now \/ row.endoflife <= now

\* WHERE expiration < current_timestamp OR endoflife < current_timestamp
Expired(row) == row.expiration < now \/ row.endoflife < now

\* The ids DELETE FROM sessions WHERE ... removes.
ExpiredIds == {i \in Present : Expired(sessions[i])}

\* ClearExpiredReturn counting the rows of the table, not the rows deleted.
ClearExpiredReturnCountsAll(ok, raOk) ==
    IF ~ok THEN <<0, NoError>>
    ELSE IF raOk THEN <<Cardinality(Present), NoError>>
    ELSE <<0, BackendError>>

\* ClearExpiredSessions(): what it returns, <<count, err>>.  ok says whether the
\* store executed the DELETE, raOk whether result.RowsAffected() succeeded.
ClearExpiredReturn(ok, raOk) ==
    IF ~ok THEN <<0, NoError>>
    ELSE IF raOk THEN <<Cardinality(ExpiredIds), NoError>>
    ELSE <<0, BackendError>>

\* ReaperAfterLog with the error branch leaving the loop.
ReaperStopsOnError(err) == IF err # NoError THEN "Stopped" ELSE "Idle"

\* Where the background goroutine goes after its log line: `continue` on an
\* error and the end of the loop body otherwise both lead back to time.Sleep.
ReaperAfterLog(err) == "Idle"

\* time.Sleep returns: the background goroutine starts a cycle.
ReaperWake ==
    /\ reaperPc = "Idle"
    /\ reaperPc' = "Sweeping"
    /\ last' = Step("Wake", 0, TRUE, NoError, NoSession, 0)
    /\ UNCHANGED <<now, sessions, nextId, pending, saved, savedExpires, removed>>

\* One cycle of the background goroutine: ClearExpiredSessions, the log line,
\* and back to time.Sleep on either branch.
ReaperSweep(ok, raOk) ==
    /\ reaperPc = "Sweeping"
    /\ IF ok
       THEN /\ sessions' = [i \in Present \ ExpiredIds |-> sessions[i]]
            /\ removed' = removed \cup ExpiredIds
            /\ saved' = Forget(saved, ExpiredIds)
            /\ savedExpires' = Forget(savedExpires, ExpiredIds)
       ELSE UNCHANGED <<sessions, removed, saved, savedExpires>>
    /\ last' = [Step("Sweep", 0, ok, ClearExpiredReturn(ok, raOk)[2], NoSession,
                      ClearExpiredReturn(ok, raOk)[1])
                 EXCEPT !.log = IF ClearExpiredReturn(ok, raOk)[2] # NoError
                                THEN "ERROR" ELSE "INFO"]
    /\ reaperPc' = ReaperAfterLog(ClearExpiredReturn(ok, raOk)[2])
    /\ UNCHANGED <<now, nextId, pending>>

\* The sessions a caller may pass to SaveSession.
SessionInputs ==
    [ID : {0} \cup Ids, EncryptedCreds : Creds, Expires : Times, EndOfLife : Times]

Next ==
    \/ Tick
    \/ \E in \in SessionInputs, ok \in BOOLEAN : SaveSession(in, ok)
    \/ \E id \in Ids, ok \in BOOLEAN : LoadSession(id, ok)
    \/ \E id \in Ids, ok \in BOOLEAN : LogoutSession(id, ok)
    \/ \E c \in DOMAIN pending, id \in Ids, d \in Durations : ExtendCall(c, id, d)
    \/ \E c \in DOMAIN pending, ok \in BOOLEAN : ExtendExec(c, ok)
    \/ ReaperWake
    \/ \E ok \in BOOLEAN, raOk \in BOOLEAN : ReaperSweep(ok, raOk)

Spec == Init /\ [][Next]_vars

\* The goroutine scheduler runs the background goroutine: time.Sleep returns
\* and the call of ClearExpiredSessions completes.
FairSpec ==
    /\ Spec
    /\ WF_vars(ReaperWake)
    /\ WF_vars(\E ok \in BOOLEAN, raOk \in BOOLEAN : ReaperSweep(ok, raOk))

\* One request goroutine more than in Spec: two calls of ExtendSession may be
\* in flight at once.  MaxConcSessions sessions are saved.
ConcCallers == 1..(NumCallers + 1)

InitConc ==
    /\ now = 0
    /\ sessions = <<>>
    /\ nextId = 1
    /\ pending = [c \in ConcCallers |-> NoCall]
    /\ reaperPc = "Idle"
    /\ last = Step("Init", 0, TRUE, NoError, NoSession, 0)
    /\ saved = <<>>
    /\ savedExpires = <<>>
    /\ removed = {}

NextConc ==
    \/ Tick
    \/ \E in \in SessionInputs, ok \in BOOLEAN :
        nextId <= MaxConcSessions /\ SaveSession(in, ok)
    \/ \E id \in Ids, ok \in BOOLEAN : LoadSession(id, ok)
    \/ \E id \in Ids, ok \in BOOLEAN : LogoutSession(id, ok)
    \/ \E c \in DOMAIN pending, id \in Ids, d \in Durations : ExtendCall(c, id, d)
    \/ \E c \in DOMAIN pending, ok \in BOOLEAN : ExtendExec(c, ok)
    \/ ReaperWake
    \/ \E ok \in BOOLEAN, raOk \in BOOLEAN : ReaperSweep(ok, raOk)

\* The program with concurrent calls of ExtendSession.
ConcSpec == InitConc /\ [][NextConc]_vars

TypeOK ==
    /\ now \in Times
    /\ Present \subseteq Ids
    /\ nextId \in 1..(MaxSessions + 1)
    /\ reaperPc \in {"Idle", "Sweeping"}
    /\ removed \subseteq Ids
    /\ DOMAIN saved = Present
    /\ DOMAIN savedExpires \subseteq Present

-----------------------------------------------------------------------------
\* A step in which the background goroutine's DELETE was executed by the store.
SweepExecuted == last'.op = "Sweep" /\ last'.ok

\* C1 as stated: a sweep whose DELETE the store executes removes a session if
\* and only if now >= expiresAt or now >= endOfLife, a session one of whose
\* clocks equals the sweep time included.
C1_RemovedIffReachedOriginal ==
    [][SweepExecuted =>
        \A id \in Present :
            (id \notin DOMAIN sessions') <=>
                (now >= sessions[id].expiration \/ now >= sessions[id].endoflife)]_vars

\* C1, amended: a sweep whose DELETE the store executes removes a session if
\* and only if its expiresAt or its endOfLife is strictly earlier than the
\* sweep time; a session whose clocks are equal to or later than the sweep
\* time is kept by that sweep.
C1_RemovedIffPassed ==
    [][SweepExecuted =>
        \A id \in Present :
            (id \notin DOMAIN sessions') <=>
                (sessions[id].expiration < now \/ sessions[id].endoflife < now)]_vars

\* A sweep has just removed a session and kept one whose expiresAt is the sweep time.
C1_Witness ==
    /\ last.op = "Sweep" /\ last.ok /\ last.count >= 1
    /\ \E id \in Present :
        sessions[id].expiration = now /\ sessions[id].endoflife >= now

\* C2: when the store fails to execute the sweep's DELETE, ClearExpiredSessions
\* returns an error; the failure is never returned as a sweep that removed 0 sessions.
C2_SweepFailureReturned ==
    (last.op = "Sweep" /\ ~last.ok) => last.err = BackendError

\* C3: LoadSession returns ErrNotFound only when the store answered and no row
\* has the id; when the store fails it returns the store's error.
C3_LoadFailureNotNotFound ==
    /\ (last.op = "Load" /\ ~last.ok) => last.err = BackendError
    /\ (last.op = "Load" /\ last.err = ErrNotFound) => (last.ok /\ last.id \notin Present)

\* What LoadSession owes for id down to the Save of id, while no ExtendSession
\* has updated its row.
SavedSession(id) ==
    [ID |-> id, EncryptedCreds |-> saved[id].EncryptedCreds,
     Expires |-> savedExpires[id], EndOfLife |-> saved[id].EndOfLife]

\* C4 as stated: after a successful Save, as long as neither Terminate nor a
\* sweep has removed the session, Load returns the credentials, expiresAt and
\* endOfLife passed to Save under the id the store assigned.  Stated for the
\* step that follows a state in which this still held.
C4_RoundTripOriginal ==
    [][\A id \in DOMAIN savedExpires :
        id \in DOMAIN sessions' =>
            LoadReturn(id, TRUE)' = <<SavedSession(id), NoError>>]_vars

\* C4, amended: after a successful Save, as long as neither Terminate nor a
\* sweep has removed the session, a Load the store answers returns no error,
\* the id the store assigned, and the credentials and endOfLife passed to
\* Save; it returns the expiresAt passed to Save as long as no Extend has
\* updated the session either.
C4_RoundTrip ==
    (last.op = "Load" /\ last.ok /\ last.id \in DOMAIN saved) =>
        /\ last.err = NoError
        /\ last.session.ID = last.id
        /\ last.session.EncryptedCreds = saved[last.id].EncryptedCreds
        /\ last.session.EndOfLife = saved[last.id].EndOfLife
        /\ last.id \in DOMAIN savedExpires =>
              last.session.Expires = savedExpires[last.id]

\* A Load has just returned the second session saved, never extended, its two
\* timestamps different, with the first session still stored.
C4_Witness ==
    /\ last.op = "Load" /\ last.ok /\ last.id = 2
    /\ last.id \in DOMAIN savedExpires
    /\ last.session.Expires # last.session.EndOfLife
    /\ 1 \in Present

\* C5 as stated: whatever Extend calls came before, a sweep whose DELETE the
\* store executes at a time now >= endOfLife removes the session.
C5_CeilingOriginal ==
    [][SweepExecuted =>
        \A id \in Present :
            now >= sessions[id].endoflife => id \notin DOMAIN sessions']_vars

\* C5, amended: whatever Extend calls came before, a sweep whose DELETE the
\* store executes at a time now > endOfLife removes the session, and every
\* later Load of a removed id returns ErrNotFound.
C5_Ceiling ==
    [][/\ SweepExecuted =>
            \A id \in Present :
                sessions[id].endoflife < now =>
                    id \notin DOMAIN sessions' /\ id \in removed'
       /\ (last'.op = "Load" /\ last'.id \in removed') => last'.err = ErrNotFound
       /\ removed' \cap DOMAIN sessions' = {}]_vars

\* The background goroutine is about to sweep a session that an Extend has
\* given an expiresAt in the future and whose endOfLife has passed.
C5_Witness ==
    /\ reaperPc = "Sweeping"
    /\ \E id \in Present \ DOMAIN savedExpires :
        sessions[id].expiration > now /\ sessions[id].endoflife < now

\* C6: the endOfLife of every stored session is the one it was given at Save.
C6_EndOfLifeFixed ==
    \A id \in Present : sessions[id].endoflife = saved[id].EndOfLife

\* A session has been extended to an expiresAt beyond its endOfLife and has
\* then been kept by a sweep that removed another session.
C6_Witness ==
    /\ last.op = "Sweep" /\ last.ok /\ last.count >= 1
    /\ \E id \in Present \ DOMAIN savedExpires :
        sessions[id].expiration > sessions[id].endoflife

\* C7 as stated: an Extend the store executes on an existing session never
\* moves its expiresAt backward, whatever the duration.
C7_ForwardOnlyOriginal ==
    [][\A c \in DOMAIN pending :
        (ExtendExec(c, TRUE) /\ pending[c].id \in Present) =>
            sessions'[pending[c].id].expiration >= sessions[pending[c].id].expiration]_vars

\* C7, amended: an Extend the store executes on an existing session sets its
\* expiresAt to the time the call read plus the duration, so the expiresAt
\* after the call is greater than or equal to the one before exactly when
\* that sum is; a shorter, zero or negative duration can move it backward.
C7_ForwardIffLater ==
    [][\A c \in DOMAIN pending :
        (ExtendExec(c, TRUE) /\ pending[c].id \in Present) =>
            /\ sessions'[pending[c].id].expiration = pending[c].expiration
            /\ (sessions'[pending[c].id].expiration >= sessions[pending[c].id].expiration)
                 <=> (pending[c].expiration >= sessions[pending[c].id].expiration)]_vars

\* An Extend is in flight whose new expiresAt is earlier than the stored one.
C7_Witness ==
    \E c \in DOMAIN pending :
        /\ pending[c].active /\ pending[c].id \in Present
        /\ pending[c].expiration < sessions[pending[c].id].expiration

\* C8: no sweep removes or changes a session whose expiresAt and endOfLife are
\* both strictly later than the sweep time.
C8_FutureSessionKept ==
    [][last'.op = "Sweep" =>
        \A id \in Present :
            (sessions[id].expiration > now /\ sessions[id].endoflife > now) =>
                id \in DOMAIN sessions' /\ sessions'[id] = sessions[id]]_vars

\* A sweep has just removed a session and kept one with both clocks in the future.
C8_Witness ==
    /\ last.op = "Sweep" /\ last.ok /\ last.count >= 1
    /\ \E id \in Present :
        sessions[id].expiration > now /\ sessions[id].endoflife > now

\* C9: for an id without a row and with the store answering, Load returns
\* ErrNotFound, and Terminate and Extend return no error and leave the table
\* as it was.
C9_AbsentId ==
    [][/\ \A id \in Ids \ Present :
            /\ LoadSession(id, TRUE) =>
                  last'.err = ErrNotFound /\ last'.session = ZeroSession
            /\ LogoutSession(id, TRUE) =>
                  last'.err = NoError /\ sessions' = sessions
       /\ \A c \in DOMAIN pending :
            (ExtendExec(c, TRUE) /\ pending[c].id \notin Present) =>
                last'.err = NoError /\ sessions' = sessions]_vars

\* An Extend of a removed id has just returned no error, another session stored.
C9_Witness ==
    /\ last.op = "Extend" /\ last.ok /\ last.err = NoError
    /\ last.id \in removed /\ last.id \notin Present
    /\ Present # {}

\* C10: every cycle of the background goroutine ends back in time.Sleep, a
\* cycle whose sweep returned an error is followed by another sweep, and
\* sweeps are invoked again and again for ever.
C10_ReaperNeverStops ==
    /\ [][last'.op = "Sweep" => reaperPc' = "Idle"]_vars
    /\ (last.op = "Sweep" /\ last.err # NoError) ~> (reaperPc = "Sweeping")
    /\ []<>(last.op = "Sweep")

\* A sweep has just returned an error and the goroutine is back in time.Sleep.
C10_Witness ==
    last.op = "Sweep" /\ last.err # NoError /\ last.log = "ERROR" /\ reaperPc = "Idle"


\* C11: every cycle of the background goroutine logs one event, a failure
\* exactly when the store's sweep failed in that cycle and a success with the
\* count removed otherwise; a cycle whose DELETE failed never logs a success
\* with count 0.
C11_LogOutcome ==
    last.op = "Sweep" =>
        /\ last.log \in {"ERROR", "INFO"}
        /\ ~last.ok => last.log = "ERROR"
        /\ last.log = "ERROR" => (~last.ok \/ last.err # NoError)
        /\ ~(~last.ok /\ last.log = "INFO" /\ last.count = 0)


\* C12: Extend(id, d) on an existing session sets its expiresAt to now + d, now
\* being the clock as ExtendSession itself reads it when it is called, and
\* leaves the session's row, id, credentials and endOfLife as they were.
C12_ExtendSetsNowPlusDuration ==
    [][/\ \A c \in DOMAIN pending, id \in Ids, d \in Durations :
            ExtendCall(c, id, d) =>
                pending'[c] = [active |-> TRUE, id |-> id, expiration |-> now + d]
       /\ \A c \in DOMAIN pending :
            (ExtendExec(c, TRUE) /\ pending[c].id \in Present) =>
                /\ pending[c].id \in DOMAIN sessions'
                /\ sessions'[pending[c].id] =
                     Row(sessions[pending[c].id].encryptedcreds, pending[c].expiration,
                         sessions[pending[c].id].endoflife)]_vars

\* An Extend with a duration other than zero has just been executed: the
\* stored expiresAt is neither the time of the call nor the one saved.
C12_Witness ==
    /\ last.op = "Extend" /\ last.ok /\ last.id \in Present
    /\ sessions[last.id].expiration > now
    /\ sessions[last.id].expiration > sessions[last.id].endoflife


\* C13: the count a sweep returns without an error is the number of sessions
\* that sweep removed; with nothing reclaimable and the store answering it
\* returns 0 and no error and removes nothing; and a sweep whose DELETE the
\* store executed leaves nothing reclaimable at that instant, the goroutine's
\* way back to the next sweep changing neither the table nor the clock, so a
\* sweep directly after it returns 0 and no session is counted twice.
C13_SweepCount ==
    [][/\ (last'.op = "Sweep" /\ last'.err = NoError) =>
            /\ last'.count = Cardinality(Present \ DOMAIN sessions')
            /\ removed' = removed \cup (Present \ DOMAIN sessions')
       /\ (ReaperSweep(TRUE, TRUE) /\ ExpiredIds = {}) =>
            last'.count = 0 /\ last'.err = NoError /\ sessions' = sessions
       /\ SweepExecuted => ExpiredIds' = {}
       /\ ReaperWake => (sessions' = sessions /\ now' = now)]_vars

\* A sweep has just returned 2 and no error, having removed both sessions.
C13_Witness ==
    /\ last.op = "Sweep" /\ last.ok /\ last.err = NoError /\ last.count = 2
    /\ removed = {1, 2}


\* C14: a Terminate the store executes returns no error and leaves the id
\* without a row; a second Terminate of the same id directly after it returns
\* no error again and leaves the table as the first one left it.
C14_TerminateIdempotent ==
    [][\A id \in Ids :
        LogoutSession(id, TRUE) =>
            /\ last'.err = NoError
            /\ id \notin DOMAIN sessions'
            /\ (last.op = "Logout" /\ last.ok /\ last.id = id) => sessions' = sessions
            /\ id \notin Present => sessions' = sessions]_vars

\* Terminate has just returned no error for an id removed before, and the
\* other session is still stored.
C14_Witness ==
    /\ last.op = "Logout" /\ last.ok /\ last.err = NoError
    /\ last.id \in removed
    /\ Present # {}


\* C15: whatever calls of ExtendSession are in flight together, each UPDATE
\* the store executes on an existing session leaves the row in place with the
\* expiresAt of that very call, its endOfLife and credentials as they were,
\* and leaves the other calls in flight as they were: the expiresAt at any
\* moment is the one of the call the store executed last.
C15_LastWriteWins ==
    [][\A c \in DOMAIN pending :
        (ExtendExec(c, TRUE) /\ pending[c].id \in Present) =>
            /\ sessions' = [sessions EXCEPT ![pending[c].id].expiration = pending[c].expiration]
            /\ \A k \in DOMAIN pending \ {c} : pending'[k] = pending[k]
            /\ \A k \in DOMAIN pending \ {c} :
                (pending[k].active /\ pending[k].id = pending[c].id) =>
                    ENABLED ExtendExec(k, TRUE)]_vars

\* Two calls of ExtendSession on one session were in flight together with
\* different timestamps: the store has executed the one that read the clock
\* later, the other one is still to be executed.
C15_Witness ==
    /\ last.op = "Extend" /\ last.ok /\ last.id \in Present
    /\ \E k \in DOMAIN pending :
        /\ pending[k].active /\ pending[k].id = last.id
        /\ pending[k].expiration < sessions[last.id].expiration


\* C16: the id a successful Save returns is one no earlier Save has returned,
\* the ids of sessions removed since included; a Save adds the row of that id
\* and no other, and no other step adds a row or moves a row to another id.
C16_IdsUnique ==
    [][/\ (last'.op = "Save" /\ last'.ok) =>
            /\ last'.id \notin Present \cup removed
            /\ last'.session.ID = last'.id
            /\ DOMAIN sessions' = Present \cup {last'.id}
            /\ \A id \in Present : sessions'[id] = sessions[id]
       /\ ~(last'.op = "Save" /\ last'.ok) => DOMAIN sessions' \subseteq Present
       /\ removed \subseteq removed']_vars

\* A Save has just returned id 2 after the session with id 1 was removed.
C16_Witness ==
    /\ last.op = "Save" /\ last.ok /\ last.id = 2
    /\ 1 \in removed
    /\ Present = {2}


\* C17: an id whose row Terminate or a sweep has removed has no row in any
\* later state, whatever Extend calls on it are executed meanwhile or
\* afterwards, and every Load of it returns ErrNotFound and no session.
C17_RemovalFinal ==
    /\ removed \cap Present = {}
    /\ (last.op = "Load" /\ last.id \in removed) =>
          (last.err = ErrNotFound /\ last.session = ZeroSession)
    /\ (last.op = "Extend" /\ last.ok /\ last.id \in removed) => last.id \notin Present

\* A Load of a removed id has just been answered while an Extend of that id,
\* called before, is still to be executed.
C17_Witness ==
    /\ last.op = "Load" /\ last.ok /\ last.id \in removed
    /\ \E c \in DOMAIN pending : pending[c].active /\ pending[c].id = last.id

\* C18: a Load the store answers for an id that has a row returns that row
\* and no error, also when the row's expiresAt or endOfLife has passed.
C18_LoadIgnoresClock ==
    (last.op = "Load" /\ last.ok /\ last.id \in Present) =>
        (last.err = NoError /\ last.session = Scan(last.id, sessions[last.id]))

\* A Load has just returned a session whose expiresAt and endOfLife have both passed.
C18_Witness ==
    /\ last.op = "Load" /\ last.ok /\ last.err = NoError
    /\ last.session.Expires < now /\ last.session.EndOfLife < now

\* C19: an Extend executed on a stored session whose expiresAt has passed and
\* whose endOfLife has not, with a new expiresAt later than the time of
\* execution, leaves a session that the sweep's condition does not match, and
\* a sweep keeps every session its condition does not match.
C19_ExtendRevives ==
    [][/\ \A c \in DOMAIN pending :
            (/\ ExtendExec(c, TRUE)
             /\ pending[c].id \in Present
             /\ sessions[pending[c].id].expiration < now
             /\ sessions[pending[c].id].endoflife > now
             /\ pending[c].expiration > now) =>
                /\ pending[c].id \in DOMAIN sessions'
                /\ pending[c].id \notin ExpiredIds'
       /\ last'.op = "Sweep" =>
            \A id \in Present \ ExpiredIds :
                id \in DOMAIN sessions' /\ sessions'[id] = sessions[id]]_vars

\* The background goroutine is about to sweep, and an Extend that will move an
\* expiresAt that has passed into the future is about to be executed on a
\* session whose endOfLife has not passed.
C19_Witness ==
    /\ reaperPc = "Sweeping"
    /\ \E c \in DOMAIN pending :
        /\ pending[c].active /\ pending[c].id \in Present
        /\ sessions[pending[c].id].expiration < now
        /\ sessions[pending[c].id].endoflife > now
        /\ pending[c].expiration > now

\* C20: Terminate and Extend, executed or failed, leave every session with
\* another id stored and unchanged, Extend adds and removes no row, and Load
\* changes no session.
C20_PointOperationsFrame ==
    [][/\ \A id \in Ids, ok \in BOOLEAN :
            LogoutSession(id, ok) =>
                \A j \in Present \ {id} :
                    j \in DOMAIN sessions' /\ sessions'[j] = sessions[j]
       /\ \A c \in DOMAIN pending, ok \in BOOLEAN :
            ExtendExec(c, ok) =>
                /\ DOMAIN sessions' = Present
                /\ \A j \in Present \ {pending[c].id} : sessions'[j] = sessions[j]
       /\ last'.op = "Load" => sessions' = sessions]_vars

\* An Extend has just been executed on a stored session while the other
\* session is stored with the expiresAt it was saved with.
C20_Witness ==
    /\ last.op = "Extend" /\ last.ok /\ last.id \in Present
    /\ \E j \in DOMAIN savedExpires : j # last.id

====
